---------------------------- MODULE Spec2Model ----------------------------
(***************************************************************************)
(* Model of the order-to-video pipeline of quantum_tour_backend:          *)
(*   - the Stripe payment webhook and its duplicate-processing guard      *)
(*     (src/app/routers/stripe.py),                                        *)
(*   - batch processing, the generation-service webhook and the polling   *)
(*     reconciler (src/app/routers/upload.py),                            *)
(*   - the admin status update and the two order-status computations      *)
(*     (src/app/routers/admin.py, src/app/routers/Client.py),             *)
(*   - the intake of a batch, feedback revisions, admin regeneration and  *)
(*     the admin upload of a final video (upload.py, admin.py).           *)
(* The database tables are sequences of rows, a row's id is its index.    *)
(***************************************************************************)
EXTENDS Integers, Sequences, FiniteSets, Bags, TLC

VARIABLES
    mock,           \* USE_MOCK_RUNWAY, fixed when the process starts
    now,            \* the wall clock, in whole seconds
    orders,         \* table orders
    images,         \* table uploaded_images
    videos,         \* table videos
    notifications,  \* table notifications, as a bag of rows
    payments,       \* table payments
    sessions,       \* Stripe checkout sessions (id = index), with their metadata
    handlers,       \* in-flight and finished deliveries of checkout.session.completed
    runs,           \* threads running process_videos_for_order
    disk,           \* files under IMAGES_DIR: path -> content
    dropbox,        \* destination paths that hold an archived video
    nextTask,       \* the generation service's next task id
    polls,          \* background tasks running poll_runway_status
    hooks,          \* number of generation-service webhook deliveries so far
    adminOps,       \* number of admin status updates so far
    resp,           \* the last response of an order-status computation
    feedbacks,      \* table feedback
    finals,         \* table final_videos
    uploads,        \* the requests upload_photos has answered
    archives        \* the calls of upload_video_to_dropbox

vars == <<mock, now, orders, images, videos, notifications, payments, sessions,
          handlers, runs, disk, dropbox, nextTask, polls, hooks, adminOps, resp,
          feedbacks, finals, uploads, archives>>

-----------------------------------------------------------------------------
(* Bounds of the model *)

MaxOrders == 2
MaxPayments == 1
MaxDeliveries == 2
MaxTime == 2
NParentImages == 1
MaxHooks == 2
MaxPolls == 1
MaxChecks == 2
MaxAdminOps == 1
MaxVideos == 3
MaxFeedbacks == 2
MaxUploads == 2
MaxArchives == 2
NAggImages == 2

-----------------------------------------------------------------------------
(* Values *)

NULL == 0
Users == {1}
Handlers == 1..MaxDeliveries

NoJob == [kind |-> "none", n |-> 0]
TaskJob(n) == [kind |-> "task", n |-> n]
MockJob(ts) == [kind |-> "mock", n |-> ts]

NoUrl == [kind |-> "none", folder |-> 0, prefix |-> "", user |-> 0, key |-> 0]
RunwayUrl(n) == [kind |-> "runway", folder |-> 0, prefix |-> "", user |-> 0, key |-> n]
DropboxPath(folder, prefix, user, key) ==
    [kind |-> "dropbox", folder |-> folder, prefix |-> prefix, user |-> user, key |-> key]

Range(s) == {s[i] : i \in DOMAIN s}

RECURSIVE SeqOfSet(_)
SeqOfSet(S) ==
    IF S = {} THEN <<>>
    ELSE LET m == CHOOSE x \in S : \A y \in S : x <= y
         IN <<m>> \o SeqOfSet(S \ {m})

NewOrder(user, parent) ==
    [user_id |-> user, parent_order_id |-> parent, is_processing |-> FALSE,
     processed_at |-> NULL, processing_started_at |-> NULL]


-----------------------------------------------------------------------------
(* Queries *)

OrderIds == 1..Len(orders)
ImageIds == 1..Len(images)
VideoIds == 1..Len(videos)

ImagesOfOrder(o) == {i \in ImageIds : images[i].order_id = o}

\* A decodable image file: what PIL's Image.open accepts.
Readable(content) == content > 0

\* db.query(Payment).filter(Payment.session_id == s).first()
PaymentOfSession(s) ==
    LET hit == {p \in 1..Len(payments) : payments[p].session_id = s}
    IN IF hit = {} THEN NULL ELSE CHOOSE p \in hit : \A q \in hit : p <= q

\* resolve_user_for_order of upload.py: the order's own user_id, else None.
resolve_user_for_order(o) == orders[o].user_id

-----------------------------------------------------------------------------
(* Client.py: reorder.  Creates the linked order and a Stripe checkout     *)
(* session whose metadata names it; no Payment row is written.             *)

reorder(o) ==
    /\ Len(orders) < MaxOrders
    /\ o \in OrderIds
    /\ orders[o].user_id # NULL
    /\ orders' = Append(orders, NewOrder(orders[o].user_id, o))
    /\ sessions' = Append(sessions, [user_id |-> orders[o].user_id,
                                     order_id |-> Len(orders) + 1,
                                     addon_type |-> "reorder"])
    /\ UNCHANGED <<mock, now, images, videos, notifications, payments, handlers,
                   runs, disk, dropbox, nextTask, polls, hooks, adminOps, resp,
                   feedbacks, finals, uploads, archives>>

(* stripe.py: create_checkout_session.  Creates the Stripe session and the *)
(* pending Payment row for it.                                             *)

create_checkout_session(u, o, addon) ==
    /\ Len(payments) < MaxPayments
    /\ u \in Users
    /\ o \in OrderIds
    /\ sessions' = Append(sessions, [user_id |-> u, order_id |-> o,
                                     addon_type |-> addon])
    /\ payments' = Append(payments, [session_id |-> Len(sessions) + 1,
                                     order_id |-> o, user_id |-> u,
                                     status |-> "pending"])
    /\ UNCHANGED <<mock, now, orders, images, videos, notifications, handlers,
                   runs, disk, dropbox, nextTask, polls, hooks, adminOps, resp,
                   feedbacks, finals, uploads, archives>>

-----------------------------------------------------------------------------
(* stripe.py: stripe_webhook -> handle_checkout_session_completed.         *)
(* A delivery is handled in two steps, so that deliveries handled by       *)
(* different worker processes interleave: first everything up to and       *)
(* including the duplicate-protection check, then the launch.              *)

IdleHandler == [pc |-> "idle", session |-> NULL, response |-> "none",
                started |-> FALSE]

\* The guard with the check of processed_at left out.
GuardSkipsOnlyWhileProcessing(order) == order.is_processing

\* Lines 209-218: the order is skipped when it is being processed or was processed.
GuardSkips(order) == order.is_processing \/ order.processed_at # NULL

\* Line 204: the reorder branch is taken.
IsReorderEvent(md) ==
    md.addon_type = "reorder" /\ md.order_id # NULL /\ md.user_id # NULL

StripeWebhookBegin(h, s) ==
    /\ handlers[h].pc = "idle"
    /\ \A g \in Handlers : g < h => handlers[g].pc # "idle"  \* numbered as they arrive
    /\ s \in 1..Len(sessions)
    /\ LET p == PaymentOfSession(s)
           md == sessions[s]
       IN IF p = NULL
          THEN \* Payment not found: the handler returns, the webhook answers success
               /\ handlers' = [handlers EXCEPT ![h] =
                     [pc |-> "done", session |-> s, response |-> "success",
                      started |-> FALSE]]
               /\ UNCHANGED payments
          ELSE /\ payments' = [payments EXCEPT ![p].status = "succeeded"]
               /\ IF /\ IsReorderEvent(md)
                     /\ ~(md.order_id \in OrderIds /\ GuardSkips(orders[md.order_id]))
                  THEN handlers' = [handlers EXCEPT ![h] =
                          [pc |-> "passed", session |-> s, response |-> "none",
                           started |-> FALSE]]
                  ELSE handlers' = [handlers EXCEPT ![h] =
                          [pc |-> "done", session |-> s, response |-> "success",
                           started |-> FALSE]]
    /\ UNCHANGED <<mock, now, orders, images, videos, notifications, sessions,
                   runs, disk, dropbox, nextTask, polls, hooks, adminOps, resp,
                   feedbacks, finals, uploads, archives>>

\* Line 227: dst_path = IMAGES_DIR/reorder_{user_id}_{ts}_{filename}.  A file name
\* is a sequence of numbers; the leading 0 stands for the "reorder_" prefix.
ReorderPath(user, ts, filename) == <<0, user, ts>> \o filename

\* Lines 221-233: the parent's images that have content, in id order.
ReorderSources(parent) ==
    SeqOfSet({i \in ImagesOfOrder(parent) : images[i].content # NULL})

StripeWebhookLaunch(h) ==
    /\ handlers[h].pc = "passed"
    /\ LET md == sessions[handlers[h].session]
           o == md.order_id
           src == IF o \in OrderIds /\ orders[o].parent_order_id # NULL
                  THEN ReorderSources(orders[o].parent_order_id)
                  ELSE <<>>
           paths == [k \in DOMAIN src |->
                        ReorderPath(md.user_id, now, images[src[k]].filename)]
           written == [q \in Range(paths) |->
                         images[src[CHOOSE k \in DOMAIN src :
                                      /\ paths[k] = q
                                      /\ \A j \in DOMAIN src : paths[j] = q => j <= k]].content]
       IN /\ disk' = [q \in DOMAIN disk \cup DOMAIN written |->
                         IF q \in DOMAIN written THEN written[q] ELSE disk[q]]
          /\ IF src # <<>>
             THEN /\ runs' = Append(runs, [order_id |-> o, files |-> paths, idx |-> 1,
                                           reorder_user_id |-> md.user_id,
                                           aborted |-> FALSE])
                  /\ handlers' = [handlers EXCEPT ![h].pc = "done",
                                                  ![h].response = "success",
                                                  ![h].started = TRUE]
             ELSE /\ runs' = runs
                  /\ handlers' = [handlers EXCEPT ![h].pc = "done",
                                                  ![h].response = "success"]
    /\ UNCHANGED <<mock, now, orders, images, videos, notifications, payments,
                   sessions, dropbox, nextTask, polls, hooks, adminOps, resp,
                   feedbacks, finals, uploads, archives>>


-----------------------------------------------------------------------------
(* upload.py: process_videos_for_order, one iteration of its loop over     *)
(* file_paths per step.  A run is active while files remain and no         *)
(* exception has ended the thread.                                         *)

RunIds == 1..Len(runs)
RunActive(r) == ~runs[r].aborted /\ runs[r].idx <= Len(runs[r].files)
ActiveRunsOf(o) == {r \in RunIds : runs[r].order_id = o /\ RunActive(r)}

\* Lines 444-454: the per-user folder; 0 is the empty folder name.
UserFolder(u) == IF u = NULL THEN 0 ELSE u

\* Lines 516-521: the archive destination of a batch video.
BatchDropboxPath(user_folder, reorder_user_id, image_id) ==
    IF reorder_user_id # NULL
    THEN DropboxPath(user_folder, "reorder", reorder_user_id, image_id)
    ELSE DropboxPath(user_folder, "video", 0, image_id)

\* What the generation service, the archival and the database do for one image
\* of a batch: "notification_failed" is a generated and archived video whose
\* create_notification raises (its commit fails).
GenOutcomes == {"archived", "upload_failed", "generation_failed",
                "notification_failed"}

\* Lines 494-532: (status, video_url, task_id) of the Video row of a batch image.
BatchResult(outcome, task, path) ==
    IF mock
    THEN [status |-> "succeeded", video_url |-> NoUrl, job |-> MockJob(now)]
    ELSE CASE outcome \in {"archived", "notification_failed"} ->
                [status |-> "succeeded", video_url |-> path, job |-> TaskJob(task)]
           [] outcome = "upload_failed" ->
                [status |-> "failed", video_url |-> NoUrl, job |-> TaskJob(task)]
           [] OTHER ->
                [status |-> "failed", video_url |-> NoUrl, job |-> NoJob]

NotificationRow(user, type, video) ==
    [user_id |-> user, type |-> type, video |-> video]

\* create_notification: one more row.
create_notification(bag, user, type, video) ==
    bag (+) SetToBag({NotificationRow(user, type, video)})

ProcessFile(r, outcome) ==
    /\ r \in RunIds
    /\ RunActive(r)
    /\ outcome \in GenOutcomes
    /\ mock => outcome \in {"archived", "notification_failed"}
    /\ LET run == runs[r]
           src_path == run.files[run.idx]
           o == run.order_id
           user == resolve_user_for_order(o)
           img == Len(images) + 1
           vid == Len(videos) + 1
           path == BatchDropboxPath(UserFolder(user), run.reorder_user_id, img)
           res == BatchResult(outcome, nextTask, path)
           readable == src_path \in DOMAIN disk /\ Readable(disk[src_path])
       IN /\ runs' = [runs EXCEPT ![r].idx = @ + 1,
                                  \* create_notification is not guarded: its
                                  \* exception ends the thread
                                  ![r].aborted = readable /\ outcome = "notification_failed"]
          /\ IF src_path \notin DOMAIN disk \/ ~Readable(disk[src_path])
             THEN \* Image.open failed: continue with the next file
                  UNCHANGED <<images, videos, notifications, dropbox, nextTask>>
             ELSE /\ images' = Append(images,
                         [order_id |-> o, filename |-> src_path,
                          content |-> disk[src_path], video_url |-> res.video_url])
                  /\ videos' = Append(videos,
                         [image_id |-> img, status |-> res.status,
                          video_url |-> res.video_url, runway_job_id |-> res.job,
                          iteration |-> 1, parent_video_id |-> NULL,
                          user_id |-> user])
                  /\ notifications' =
                         IF outcome = "notification_failed" THEN notifications
                         ELSE create_notification(notifications, user,
                                  IF res.status = "succeeded" THEN "video_created"
                                                              ELSE "video_failed", vid)
                  /\ dropbox' = IF ~mock /\ res.status = "succeeded"
                                THEN dropbox \cup {path} ELSE dropbox
                  /\ nextTask' = IF ~mock /\ outcome # "generation_failed"
                                 THEN nextTask + 1 ELSE nextTask
    /\ UNCHANGED <<mock, now, orders, payments, sessions, handlers, disk, polls,
                   hooks, adminOps, resp, feedbacks, finals, uploads, archives>>

\* The clock advances.
Tick ==
    /\ now < MaxTime
    /\ now' = now + 1
    /\ UNCHANGED <<mock, orders, images, videos, notifications, payments, sessions,
                   handlers, runs, disk, dropbox, nextTask, polls, hooks, adminOps,
                   resp, feedbacks, finals, uploads, archives>>

-----------------------------------------------------------------------------
(* upload.py: runwayml_webhook, the push path of reconciliation.           *)

ValidStatuses == {"queued", "processing", "succeeded", "failed"}
TerminalStatuses == {"succeeded", "failed"}

\* The status strings a report of the generation service may carry ("" is a
\* missing status), and the output URL it may carry.
ReportStatuses == {"succeeded", "failed", "processing", "SUCCEEDED", ""}

\* db.query(Video).filter(Video.runway_job_id == job): the rows that match.
VideosOfJob(job) == {v \in VideoIds : videos[v].runway_job_id = job}

\* The job ids a report may name: those of the stored units and an unknown one.
ReportJobs == {videos[v].runway_job_id : v \in VideoIds} \cup {TaskJob(nextTask)}
ReportOutputs(job) == {NoUrl, RunwayUrl(job.n)}

\* Lines 712-745: what the webhook does to the matching unit.
WebhookEffect(v, status, out) ==
    [status |-> IF status \in TerminalStatuses THEN status
                ELSE IF status # "" THEN status ELSE videos[v].status,
     video_url |-> IF status = "succeeded" /\ out # NoUrl THEN out
                   ELSE videos[v].video_url,
     notify |-> IF status = "succeeded" THEN "video_created"
                ELSE IF status = "failed" THEN "video_failed" ELSE "none",
     archive |-> NoUrl]

\* Applies an effect of reconciliation to unit v: the row, the notification, the
\* archived copy.
ApplyEffect(v, eff) ==
    /\ videos' = [videos EXCEPT ![v].status = eff.status,
                                ![v].video_url = eff.video_url]
    /\ notifications' = IF eff.notify = "none" THEN notifications
                        ELSE create_notification(notifications, videos[v].user_id,
                                                 eff.notify, v)
    /\ dropbox' = IF eff.archive = NoUrl THEN dropbox ELSE dropbox \cup {eff.archive}

runwayml_webhook(job, status, out) ==
    /\ hooks < MaxHooks
    /\ hooks' = hooks + 1
    /\ job \in ReportJobs
    /\ status \in ReportStatuses
    /\ out \in ReportOutputs(job)
    /\ IF job = NoJob \/ VideosOfJob(job) = {}
       THEN \* missing job id, or no Video found: acknowledged, nothing changes
            UNCHANGED <<videos, notifications, dropbox>>
       ELSE \E v \in VideosOfJob(job) : ApplyEffect(v, WebhookEffect(v, status, out))
    /\ UNCHANGED <<mock, now, orders, images, payments, sessions, handlers, runs,
                   disk, nextTask, polls, adminOps, resp, feedbacks, finals,
                   uploads, archives>>

-----------------------------------------------------------------------------
(* upload.py: poll_runway_status, the pull path of reconciliation.         *)

\* str(payload.get("status") or "").upper()
Upper(status) ==
    CASE status = "succeeded" -> "SUCCEEDED"
      [] status = "failed" -> "FAILED"
      [] status = "processing" -> "PROCESSING"
      [] OTHER -> status

\* Lines 259-274 and 215-230: user_folder is never assigned (the folder name is
\* stored in agent_folder), so the destination is always the folderless one.
PollDropboxPath(v) == DropboxPath(0, "video", 0, v)

\* A loop that gives up on a unit whose status is not terminal yet.
PollEffectFailsUnfinished(v, status, out, upload_ok) ==
    CASE Upper(status) = "SUCCEEDED" ->
            [status |-> "succeeded",
             video_url |-> IF out # NoUrl /\ upload_ok THEN PollDropboxPath(v) ELSE out,
             notify |-> "video_created",
             archive |-> IF out # NoUrl /\ upload_ok THEN PollDropboxPath(v) ELSE NoUrl]
      [] OTHER ->
            [status |-> "failed", video_url |-> videos[v].video_url,
             notify |-> "video_failed", archive |-> NoUrl]

\* Lines 251-313: what one status check of the live loop does to unit v.
PollEffect(v, status, out, upload_ok) ==
    CASE Upper(status) = "SUCCEEDED" ->
            [status |-> "succeeded",
             video_url |-> IF out # NoUrl /\ upload_ok THEN PollDropboxPath(v) ELSE out,
             notify |-> "video_created",
             archive |-> IF out # NoUrl /\ upload_ok THEN PollDropboxPath(v) ELSE NoUrl]
      [] Upper(status) = "FAILED" ->
            [status |-> "failed", video_url |-> videos[v].video_url,
             notify |-> "video_failed", archive |-> NoUrl]
      [] OTHER ->
            [status |-> videos[v].status, video_url |-> videos[v].video_url,
             notify |-> "none", archive |-> NoUrl]

\* Lines 212-243: mock mode marks the unit succeeded at once; nothing is uploaded.
MockPollEffect(v) ==
    [status |-> "succeeded", video_url |-> PollDropboxPath(v),
     notify |-> "video_created", archive |-> NoUrl]

PollIds == 1..Len(polls)

\* runway_check_status schedules the poll; the poll resolves its Video row first.
PollStart(task, max_checks) ==
    /\ Len(polls) < MaxPolls
    /\ task \in ReportJobs \ {NoJob}
    /\ \E v \in (IF VideosOfJob(task) = {} THEN {NULL} ELSE VideosOfJob(task)) :
          IF mock
          THEN /\ polls' = Append(polls, [task |-> task, video |-> v, left |-> 0,
                                          checks |-> 0, outcome |-> "mock",
                                          max_checks |-> max_checks])
               /\ IF v = NULL
                  THEN UNCHANGED <<videos, notifications, dropbox>>
                  ELSE ApplyEffect(v, MockPollEffect(v))
          ELSE /\ polls' = Append(polls, [task |-> task, video |-> v,
                                          left |-> max_checks, checks |-> 0,
                                          max_checks |-> max_checks,
                                          outcome |-> IF max_checks = 0
                                                      THEN "timeout"
                                                      ELSE "polling"])
               /\ UNCHANGED <<videos, notifications, dropbox>>
    /\ UNCHANGED <<mock, now, orders, images, payments, sessions, handlers, runs,
                   disk, nextTask, hooks, adminOps, resp, feedbacks, finals,
                   uploads, archives>>

\* One iteration of the loop: check_runway_status answers (answered = FALSE: the
\* request failed and the payload is None), then the status is acted on.  The
\* outcome is where the function ends: "terminal" at one of the two returns of
\* the loop, "timeout" at the log line after it.
PollCheck(p, answered, status, out, upload_ok) ==
    /\ p \in PollIds
    /\ polls[p].left > 0
    /\ status \in ReportStatuses
    /\ out \in ReportOutputs(polls[p].task)
    /\ LET v == polls[p].video
           terminal == answered /\ Upper(status) \in {"SUCCEEDED", "FAILED"}
       IN /\ polls' = [polls EXCEPT ![p].left = IF terminal THEN 0 ELSE @ - 1,
                                    ![p].checks = @ + 1,
                                    ![p].outcome = IF terminal THEN "terminal"
                                                   ELSE IF polls[p].left = 1
                                                        THEN "timeout"
                                                        ELSE "polling"]
          /\ IF answered /\ v # NULL
             THEN ApplyEffect(v, PollEffect(v, status, out, upload_ok))
             ELSE UNCHANGED <<videos, notifications, dropbox>>
    /\ UNCHANGED <<mock, now, orders, images, payments, sessions, handlers, runs,
                   disk, nextTask, hooks, adminOps, resp, feedbacks, finals,
                   uploads, archives>>

-----------------------------------------------------------------------------
(* admin.py: admin_update_order_status.                                    *)

AdminInputs == {"pending", "processing", "COMPLETED", "failed", "canceled"}

\* (payload.get("status") or "").strip().lower()
Lower(status) == IF status = "COMPLETED" THEN "completed" ELSE status

\* Lines 227-228: status_map.get(new_status, new_status)
InternalStatus(status) ==
    CASE Lower(status) = "completed" -> "succeeded"
      [] Lower(status) = "pending" -> "queued"
      [] OTHER -> Lower(status)

VideosOfImage(i) == {v \in VideoIds : videos[v].image_id = i}

\* order_by(Video.iteration.desc(), Video.id.desc()).first()
LatestVideo(i) ==
    CHOOSE v \in VideosOfImage(i) :
        \A w \in VideosOfImage(i) :
            \/ videos[w].iteration < videos[v].iteration
            \/ videos[w].iteration = videos[v].iteration /\ w <= v

admin_update_order_status(i, status) ==
    /\ adminOps < MaxAdminOps
    /\ adminOps' = adminOps + 1
    /\ i \in ImageIds
    /\ status \in AdminInputs
    /\ IF InternalStatus(status) \notin ValidStatuses
       THEN UNCHANGED videos      \* 400 Invalid status
       ELSE IF VideosOfImage(i) = {}
            THEN videos' = Append(videos,
                    [image_id |-> i, status |-> InternalStatus(status),
                     video_url |-> NoUrl, runway_job_id |-> NoJob, iteration |-> 1,
                     parent_video_id |-> NULL, user_id |-> NULL])
            ELSE videos' = [videos EXCEPT ![LatestVideo(i)].status =
                                               InternalStatus(status)]
    /\ UNCHANGED <<mock, now, orders, images, notifications, payments, sessions,
                   handlers, runs, disk, dropbox, nextTask, polls, hooks, resp,
                   feedbacks, finals, uploads, archives>>

-----------------------------------------------------------------------------
(* The operations that add iterations: submit_feedback (upload.py),        *)
(* admin_regenerate_video and admin_upload_final_video (admin.py).         *)

\* Step 5 of submit_feedback: the string "data:image/jpeg;base64,<content>" that
\* is then opened as a file.  The leading -1 stands for the "data:..." prefix.
DataUrlPath(content) == <<-1, content>>

\* The media reference of a final video shared from Dropbox.
FinalUrl(user, ts) ==
    [kind |-> "final", folder |-> UserFolder(user), prefix |-> "final",
     user |-> user, key |-> ts]

submit_feedback(video_id) ==
    /\ Len(feedbacks) < MaxFeedbacks
    /\ video_id \in VideoIds
    /\ LET parent_video == videos[video_id]
           image == images[parent_video.image_id]
           opt_path == DataUrlPath(image.content)
       IN \* step 4: the Feedback row is committed before the generation starts
          /\ feedbacks' = Append(feedbacks, [video_id |-> video_id])
          /\ IF image.content = NULL \/ opt_path \notin DOMAIN disk
             THEN \* b64encode(None) or open(opt_path) raises: answered with 500
                  UNCHANGED <<videos, nextTask>>
             ELSE /\ Len(videos) < MaxVideos
                  /\ videos' = Append(videos,
                         [image_id |-> parent_video.image_id, status |-> "succeeded",
                          video_url |-> RunwayUrl(nextTask),
                          runway_job_id |-> TaskJob(nextTask),
                          iteration |-> parent_video.iteration + 1,
                          parent_video_id |-> video_id,
                          user_id |-> IF parent_video.user_id # NULL
                                      THEN parent_video.user_id
                                      ELSE resolve_user_for_order(image.order_id)])
                  /\ nextTask' = nextTask + 1
    /\ UNCHANGED <<mock, now, orders, images, notifications, payments, sessions,
                   handlers, runs, disk, dropbox, polls, hooks, adminOps, resp,
                   finals, uploads, archives>>

\* generate_video of app.services.runway_service: it waits for the generation
\* service and either returns the output or raises.
generate_video(ok, task) ==
    IF ok THEN [raised |-> FALSE, status |-> "succeeded", video_url |-> RunwayUrl(task)]
    ELSE [raised |-> TRUE, status |-> "failed", video_url |-> NoUrl]

admin_regenerate_video(image_id, file_exists, ok) ==
    /\ Len(videos) < MaxVideos
    /\ image_id \in ImageIds
    /\ file_exists     \* otherwise 404 "Source image file not found on server"
    /\ LET latest == IF VideosOfImage(image_id) = {} THEN 0
                     ELSE videos[LatestVideo(image_id)].iteration
           gen == generate_video(ok, nextTask)
       IN /\ videos' = Append(videos,
                 [image_id |-> image_id, status |-> gen.status,
                  video_url |-> gen.video_url, runway_job_id |-> NoJob,
                  iteration |-> latest + 1, parent_video_id |-> NULL,
                  user_id |-> NULL])
          /\ images' = IF gen.raised THEN images
                       ELSE [images EXCEPT ![image_id].video_url = gen.video_url]
          /\ nextTask' = nextTask + 1
    /\ UNCHANGED <<mock, now, orders, notifications, payments, sessions, handlers,
                   runs, disk, dropbox, polls, hooks, adminOps, resp, feedbacks,
                   finals, uploads, archives>>

\* The images of the orders of a user, in id order.
ImagesOfUser(user) ==
    SeqOfSet({i \in ImageIds : orders[images[i].order_id].user_id = user})

admin_upload_final_video(user_id) ==
    /\ ImagesOfUser(user_id) # <<>>      \* otherwise 404 "No images found"
    /\ Len(videos) + Len(ImagesOfUser(user_id)) <= MaxVideos
    /\ LET imgs == ImagesOfUser(user_id)
           url == FinalUrl(user_id, now)
       IN /\ dropbox' = dropbox \cup {url}
          /\ images' = [i \in ImageIds |->
                           IF i \in Range(imgs)
                           THEN [images[i] EXCEPT !.video_url = url] ELSE images[i]]
          /\ videos' = videos \o
                 [k \in 1..Len(imgs) |->
                     [image_id |-> imgs[k], status |-> "succeeded", video_url |-> url,
                      runway_job_id |-> NoJob, iteration |-> 1,
                      parent_video_id |-> NULL, user_id |-> user_id]]
          /\ finals' = Append(finals,
                 [user_id |-> user_id, image_id |-> imgs[1], video_url |-> url])
    /\ UNCHANGED <<mock, now, orders, notifications, payments, sessions, handlers,
                   runs, disk, nextTask, polls, hooks, adminOps, resp, feedbacks,
                   uploads, archives>>

-----------------------------------------------------------------------------
(* upload.py: upload_photos, the intake of a batch.                        *)

PACKAGE_LIMITS ==
    [Starter |-> <<5, 10>>, Professional |-> <<11, 20>>, Premium |-> <<21, 30>>]

\* The k-th file of a batch: its name, and whether it is an image.  A file that
\* is not an image has negative content.
FileName(k) == <<NParentImages + k>>
FileContent(o, is_image) == IF is_image THEN o ELSE 0 - o

\* The batches offered to upload_photos: n files, of which file number bad (if
\* any) is not an image, and the save of file number fail_at (if any) raises.
Packages == {"Starter", "Basic"}
Batches ==
    [n : {4, 5}, bad : {0, 2}, fail_at : {0, 3}]

\* The destination of upload_image_to_dropbox for a file of the batch.
ImageDropboxPath(user_folder, name) == DropboxPath(user_folder, "image", 0, name[1])

\* Which of the scheduled image uploads to Dropbox succeed.
ImageUploadOutcomes(n) == {{}, {1}, 1..n}

\* A tier whose range takes n only below its upper limit.
AcceptsBelowUpperLimit(package, n) ==
    /\ package \in DOMAIN PACKAGE_LIMITS
    /\ PACKAGE_LIMITS[package][1] <= n
    /\ n < PACKAGE_LIMITS[package][2]

\* Lines 589-598: the two validations of upload_photos.
Accepts(package, n) ==
    /\ package \in DOMAIN PACKAGE_LIMITS
    /\ PACKAGE_LIMITS[package][1] <= n
    /\ n <= PACKAGE_LIMITS[package][2]

upload_photos(u, package, batch) ==
    /\ Len(uploads) < MaxUploads
    /\ Accepts(package, batch.n) => Len(orders) < MaxOrders
    /\ LET o == Len(orders) + 1
           failed == batch.fail_at \in 1..batch.n
           nsaved == IF failed THEN batch.fail_at - 1 ELSE batch.n
           saved_files == [k \in 1..nsaved |-> FileName(k)]
       IN IF ~Accepts(package, batch.n)
          THEN \* HTTPException(400) before anything is created
               /\ uploads' = Append(uploads,
                      [package |-> package, n |-> batch.n, rejected |-> TRUE,
                       order_id |-> NULL, saved_files |-> <<>>, failed |-> FALSE])
               /\ UNCHANGED <<orders, disk, runs, dropbox>>
          ELSE /\ orders' = Append(orders, NewOrder(u, NULL))
               /\ disk' = [q \in DOMAIN disk \cup Range(saved_files) |->
                              IF q \in Range(saved_files)
                              THEN FileContent(o, q # FileName(batch.bad))
                              ELSE disk[q]]
               /\ uploads' = Append(uploads,
                      [package |-> package, n |-> batch.n, rejected |-> FALSE,
                       order_id |-> o, saved_files |-> saved_files,
                       failed |-> failed])
               /\ IF failed
                  THEN \* HTTPException(500): the background tasks are not run
                       UNCHANGED <<runs, dropbox>>
                  ELSE /\ runs' = Append(runs,
                              [order_id |-> o, files |-> saved_files, idx |-> 1,
                               reorder_user_id |-> NULL, aborted |-> FALSE])
                       /\ \E done \in ImageUploadOutcomes(batch.n) :
                             dropbox' = dropbox \cup
                                 {ImageDropboxPath(UserFolder(u), FileName(k)) :
                                     k \in done}
    /\ UNCHANGED <<mock, now, images, videos, notifications, payments, sessions,
                   handlers, nextTask, polls, hooks, adminOps, resp, feedbacks,
                   finals, archives>>

-----------------------------------------------------------------------------
(* upload.py: upload_video_to_dropbox, one step per files_upload call.     *)

\* range(1, 4), line 368
MaxAttempts == 3

ArchiveIds == 1..Len(archives)

\* An upload whose last failure leaves the function as an exception.
files_upload_reraises(call, ok) ==
    LET tries == Append(call.tries, ok)
    IN IF ok
       THEN [call EXCEPT !.tries = tries, !.pc = "returned", !.result = TRUE]
       ELSE IF Len(tries) = MaxAttempts
            THEN [call EXCEPT !.tries = tries, !.pc = "returned", !.raised = TRUE]
            ELSE [call EXCEPT !.tries = tries]

\* Lines 368-385: one pass of the retry loop.  Success breaks out of the loop
\* and returns True; the failure of the last attempt is re-raised inside the
\* outer try and turned into False by its except clauses.
files_upload(call, ok) ==
    LET tries == Append(call.tries, ok)
    IN IF ok
       THEN [call EXCEPT !.tries = tries, !.pc = "returned", !.result = TRUE]
       ELSE IF Len(tries) = MaxAttempts
            THEN [call EXCEPT !.tries = tries, !.pc = "returned", !.result = FALSE]
            ELSE [call EXCEPT !.tries = tries]

\* Lines 342-363: credentials and download.  When one of them fails the function
\* returns False before any upload is attempted.
upload_video_to_dropbox(dropbox_path, prepared) ==
    /\ Len(archives) < MaxArchives
    /\ archives' = Append(archives,
           [path |-> dropbox_path, tries |-> <<>>,
            pc |-> IF prepared THEN "uploading" ELSE "returned",
            result |-> FALSE, raised |-> FALSE])
    /\ UNCHANGED <<mock, now, orders, images, videos, notifications, payments,
                   sessions, handlers, runs, disk, dropbox, nextTask, polls, hooks,
                   adminOps, resp, feedbacks, finals, uploads>>

UploadAttempt(c, ok) ==
    /\ c \in ArchiveIds
    /\ archives[c].pc = "uploading"
    /\ archives' = [archives EXCEPT ![c] = files_upload(@, ok)]
    /\ dropbox' = IF ok THEN dropbox \cup {archives[c].path} ELSE dropbox
    /\ UNCHANGED <<mock, now, orders, images, videos, notifications, payments,
                   sessions, handlers, runs, disk, nextTask, polls, hooks,
                   adminOps, resp, feedbacks, finals, uploads>>

-----------------------------------------------------------------------------
(* The database when the model starts: one order of user 1 whose batch has *)
(* been processed, leaving NParentImages image units, each with its        *)
(* iteration-1 video as process_videos_for_order creates it.               *)

ParentImage(i, isMock) ==
    [order_id |-> 1, filename |-> <<i>>, content |-> i,
     video_url |-> IF isMock THEN NoUrl ELSE DropboxPath(UserFolder(1), "video", 0, i)]

ParentVideo(i, isMock) ==
    [image_id |-> i, status |-> "succeeded",
     video_url |-> IF isMock THEN NoUrl ELSE DropboxPath(UserFolder(1), "video", 0, i),
     runway_job_id |-> IF isMock THEN MockJob(i - NParentImages) ELSE TaskJob(i),
     iteration |-> 1, parent_video_id |-> NULL, user_id |-> 1]

NoResp == [op |-> "none", error |-> FALSE, result |-> <<>>]

InitTables(isMock) ==
    /\ mock = isMock
    /\ now = 1
    /\ images = [i \in 1..NParentImages |-> ParentImage(i, isMock)]
    /\ videos = [i \in 1..NParentImages |-> ParentVideo(i, isMock)]
    /\ notifications = SetToBag({NotificationRow(1, "video_created", i) :
                                    i \in 1..NParentImages})
    /\ payments = <<>>
    /\ sessions = <<>>
    /\ handlers = [h \in Handlers |-> IdleHandler]
    /\ runs = <<>>
    /\ disk = [q \in {<<i>> : i \in 1..NParentImages} |-> q[1]]
    /\ dropbox = IF isMock THEN {}
                 ELSE {DropboxPath(UserFolder(1), "video", 0, i) : i \in 1..NParentImages}
    /\ nextTask = NParentImages + 1
    /\ polls = <<>>
    /\ hooks = 0
    /\ adminOps = 0
    /\ resp = NoResp
    /\ feedbacks = <<>>
    /\ finals = <<>>
    /\ uploads = <<>>
    /\ archives = <<>>

Init ==
    /\ \E isMock \in BOOLEAN : InitTables(isMock)
    /\ orders = <<NewOrder(1, NULL)>>

Next ==
    \/ \E o \in OrderIds : reorder(o)
    \/ \E u \in Users, o \in OrderIds, addon \in {"reorder", "general"} :
          create_checkout_session(u, o, addon)
    \/ \E h \in Handlers, s \in 1..Len(sessions) : StripeWebhookBegin(h, s)
    \/ \E h \in Handlers : StripeWebhookLaunch(h)
    \/ \E r \in RunIds, outcome \in GenOutcomes : ProcessFile(r, outcome)

Spec == Init /\ [][Next]_vars


-----------------------------------------------------------------------------
(* The duplicate-protection check as a function of the Order row it reads. *)
(* No code of the repository writes is_processing, processed_at or         *)
(* processing_started_at, so here the row of the reorder is an input: the  *)
(* database starts with a reorder (order 2, linked to order 1) whose three *)
(* guard columns hold any values the schema allows.  The clock stands still: *)
(* time only enters the names of the copied files.                         *)

GuardRows ==
    {[NewOrder(1, 1) EXCEPT !.is_processing = ip, !.processed_at = pa,
                            !.processing_started_at = IF ip \/ pa # NULL THEN 1 ELSE NULL] :
        ip \in BOOLEAN, pa \in {NULL, 1}}

InitGuard ==
    /\ \E isMock \in BOOLEAN : InitTables(isMock)
    /\ \E row \in GuardRows : orders = <<NewOrder(1, NULL), row>>

NextGuard ==
    \/ \E u \in Users, o \in OrderIds, addon \in {"reorder", "general"} :
          create_checkout_session(u, o, addon)
    \/ \E h \in Handlers, s \in 1..Len(sessions) : StripeWebhookBegin(h, s)
    \/ \E h \in Handlers : StripeWebhookLaunch(h)
    \/ \E r \in RunIds, outcome \in GenOutcomes : ProcessFile(r, outcome)

SpecGuard == InitGuard /\ [][NextGuard]_vars

-----------------------------------------------------------------------------
(* Claims about the duplicate-processing guard *)

HandlerOrder(h) == sessions[handlers[h].session].order_id
RunsOf(o) == {r \in RunIds : runs[r].order_id = o}

\* A delivery of a reorder confirmation begins while no other delivery is in
\* flight and an earlier delivery for the same order has already started a run.
IsRedelivery(h, s) ==
    /\ handlers[h].pc = "idle"
    /\ IsReorderEvent(sessions[s])
    /\ \A g \in Handlers : handlers[g].pc # "passed"
    /\ \E g \in Handlers \ {h} :
          /\ handlers[g].pc = "done"
          /\ handlers[g].started
          /\ HandlerOrder(g) = sessions[s].order_id

\* C1: when the payment confirmation of an order is delivered again after an
\* earlier delivery has started the order's processing run, the later delivery
\* is stopped at the guard: it starts no run (and so adds no image or video unit).
C1_RedeliveryStartsNoRun ==
    [][\A h \in Handlers, s \in 1..Len(sessions) :
          (IsRedelivery(h, s) /\ handlers'[h].pc # "idle" /\ handlers'[h].session = s)
              => handlers'[h].pc = "done" /\ ~handlers'[h].started]_vars

\* C2: of the deliveries for one order that are handled concurrently, at most one
\* passes the guard and starts a run: no state has two deliveries for the same
\* order that both started a processing run.
C2_AtMostOneDeliveryStartsRun ==
    \A h1, h2 \in Handlers :
        (/\ h1 # h2
         /\ handlers[h1].started
         /\ handlers[h2].started)
            => HandlerOrder(h1) # HandlerOrder(h2)

\* C3: is_processing is true exactly while a processing run of the order is
\* active; an active run has processing_started_at set, a finished run has left
\* processed_at set, and processed_at is set only when no run is active.
C3_ProcessingFlagTracksRun ==
    \A o \in OrderIds :
        /\ orders[o].is_processing <=> ActiveRunsOf(o) # {}
        /\ ActiveRunsOf(o) # {} => orders[o].processing_started_at # NULL
        /\ (RunsOf(o) # {} /\ ActiveRunsOf(o) = {}) => orders[o].processed_at # NULL
        /\ orders[o].processed_at # NULL => ActiveRunsOf(o) = {}

\* C4: a delivery for an order whose is_processing is true or whose processed_at
\* is set ends at the guard with the webhook answering success; it starts no run,
\* and no run, image unit or video unit exists for such an order.
C4_GuardedDeliveryStartsNothing ==
    /\ \A h \in Handlers :
          (/\ handlers[h].pc # "idle"
           /\ IsReorderEvent(sessions[handlers[h].session])
           /\ \/ orders[HandlerOrder(h)].is_processing
              \/ orders[HandlerOrder(h)].processed_at # NULL)
              => /\ handlers[h].pc = "done"
                 /\ handlers[h].response = "success"
                 /\ ~handlers[h].started
    /\ \A o \in OrderIds :
          (orders[o].is_processing \/ orders[o].processed_at # NULL)
              => RunsOf(o) = {} /\ ImagesOfOrder(o) = {}

\* A delivery that found its Payment row was stopped by the guard.
C4_Witness ==
    \E h \in Handlers :
        /\ handlers[h].pc = "done"
        /\ handlers[h].response = "success"
        /\ PaymentOfSession(handlers[h].session) # NULL
        /\ IsReorderEvent(sessions[handlers[h].session])
        /\ orders[HandlerOrder(h)].parent_order_id # NULL
        /\ orders[HandlerOrder(h)].processed_at # NULL
        /\ ~orders[HandlerOrder(h)].is_processing


-----------------------------------------------------------------------------
(* Reconciliation of the stored units: the two paths and the admin status  *)
(* update, over the database of Init.                                      *)

NextRecon ==
    \/ \E job \in ReportJobs, status \in ReportStatuses, out \in {NoUrl} \cup
            {RunwayUrl(j.n) : j \in ReportJobs} : runwayml_webhook(job, status, out)
    \/ \E task \in ReportJobs : PollStart(task, MaxChecks)
    \/ \E p \in PollIds, answered \in BOOLEAN, status \in ReportStatuses,
          out \in {NoUrl} \cup {RunwayUrl(j.n) : j \in ReportJobs},
          upload_ok \in BOOLEAN : PollCheck(p, answered, status, out, upload_ok)
    \/ \E i \in ImageIds, status \in AdminInputs : admin_update_order_status(i, status)

SpecRecon == Init /\ [][NextRecon]_vars


-----------------------------------------------------------------------------
(* Claims about reconciliation *)

\* The number of notification rows about unit v.
NotifsOf(bag, v) ==
    LET rows == {r \in BagToSet(bag) : r.video = v}
    IN BagCardinality([r \in rows |-> bag[r]])

\* A step of batch processing, of the webhook or of the poll.
PipelineStep == hooks' # hooks \/ polls' # polls \/ runs' # runs
ReconcileStep == hooks' # hooks \/ polls' # polls

\* C5: a step of batch processing, of the webhook or of the poll creates exactly
\* one notification about a unit when it moves the unit to succeeded or failed (of
\* the matching type, for the unit's user) or creates it in such a state, and no
\* notification about a unit whose state it does not change.
C5_OneNotificationPerTransition ==
    [][PipelineStep =>
        /\ \A v \in VideoIds :
              IF /\ videos'[v].status \in TerminalStatuses
                 /\ videos'[v].status # videos[v].status
              THEN /\ NotifsOf(notifications', v) = NotifsOf(notifications, v) + 1
                   /\ LET row == NotificationRow(videos[v].user_id,
                                    IF videos'[v].status = "succeeded"
                                    THEN "video_created" ELSE "video_failed", v)
                      IN CopiesIn(row, notifications') = CopiesIn(row, notifications) + 1
              ELSE NotifsOf(notifications', v) = NotifsOf(notifications, v)
        /\ \A v \in (1..Len(videos')) \ VideoIds :
              NotifsOf(notifications', v) =
                  IF videos'[v].status \in TerminalStatuses THEN 1 ELSE 0]_vars

\* C6: a webhook delivery or a poll result changes a unit's state only from
\* processing to succeeded or from processing to failed; a unit that is succeeded
\* or failed keeps its state.
C6_ReconcileOnlyFromProcessing ==
    [][ReconcileStep =>
        \A v \in VideoIds :
            videos'[v].status # videos[v].status
                => /\ videos[v].status = "processing"
                   /\ videos'[v].status \in TerminalStatuses]_vars

\* C7: the status of every Video unit is queued, processing, succeeded or failed.
C7_StatusIsValid ==
    \A v \in VideoIds : videos[v].status \in ValidStatuses

\* What the two paths are compared on: the unit's status, the kind of its
\* video_url, the notification and whether the output was archived.
SameOutcome(a, b) ==
    /\ a.status = b.status
    /\ a.video_url.kind = b.video_url.kind
    /\ a.notify = b.notify
    /\ (a.archive = NoUrl) <=> (b.archive = NoUrl)

\* The pull path's effect on unit v for a report, in mock and in live mode.
PullEffect(v, status, out, upload_ok) ==
    IF mock THEN MockPollEffect(v) ELSE PollEffect(v, status, out, upload_ok)

\* C8: for a unit whose job is outstanding, the same terminal report (succeeded
\* with its output, or failed) has the same outcome on the push path and on the
\* pull path: same status, same kind of video_url, same notification, and the
\* output archived on both or on neither.
C8_PushAndPullAgree ==
    \A v \in VideoIds :
        (videos[v].status = "processing" /\ videos[v].runway_job_id # NoJob)
            => \A status \in TerminalStatuses :
                  \A out \in ReportOutputs(videos[v].runway_job_id) \ {NoUrl} :
                      \A upload_ok \in {TRUE} :
                  (mock => status = "succeeded")
                      => SameOutcome(WebhookEffect(v, status, out),
                                     PullEffect(v, status, out, upload_ok))


-----------------------------------------------------------------------------
(* Order status aggregation: get_client_orders and get_order_status.      *)

\* The rows of the latest_videos query for order o: the videos of the order's
\* images whose iteration is the maximum of their image.
LatestVideos(o) ==
    {v \in VideoIds :
        /\ videos[v].image_id \in ImagesOfOrder(o)
        /\ \A w \in VideosOfImage(videos[v].image_id) :
              videos[w].iteration <= videos[v].iteration}

\* image_id_to_video: one row per image, the last one of the query's rows for
\* that image; the query has no ORDER BY, so any of the tied rows can be last.
Selections(o) ==
    LET imgs == {videos[v].image_id : v \in LatestVideos(o)}
    IN {sel \in [imgs -> LatestVideos(o)] :
           \A i \in imgs : videos[sel[i]].image_id = i}

SelectedStatuses(sel) == {videos[sel[i]].status : i \in DOMAIN sel}

\* The client chain with the first test comparing against "completed".
ClientStatusComparesCompleted(statuses) ==
    IF statuses # {} /\ \A x \in statuses : x = "completed" THEN "completed"
    ELSE IF \E x \in statuses : x = "processing" THEN "processing"
    ELSE "submitted"

\* The admin chain with the failed test before the processing test.
AdminStatusFailedFirst(statuses) ==
    IF \A x \in statuses : x \in {"completed", "succeeded"} THEN "completed"
    ELSE IF \E x \in statuses : x = "failed" THEN "failed"
    ELSE IF \E x \in statuses : x = "processing" THEN "processing"
    ELSE "submitted"

\* The status chain of get_client_orders.
ClientStatus(statuses) ==
    IF statuses # {} /\ \A x \in statuses : x = "succeeded" THEN "completed"
    ELSE IF \E x \in statuses : x = "processing" THEN "processing"
    ELSE "submitted"

\* The status chain of get_order_status.
AdminStatus(statuses) ==
    IF \A x \in statuses : x \in {"completed", "succeeded"} THEN "completed"
    ELSE IF \E x \in statuses : x = "processing" THEN "processing"
    ELSE IF \E x \in statuses : x = "failed" THEN "failed"
    ELSE "submitted"

\* One entry of the response: the order's status and its "videos" list.
OrderEntry(status, sel) ==
    [status |-> status,
     videos |-> [i \in DOMAIN sel |-> [id |-> sel[i], status |-> videos[sel[i]].status]]]

\* The choices of image_id_to_video for each of the listed orders.
Picks(listed) ==
    {pick \in [listed -> UNION {Selections(o) : o \in listed}] :
        \A o \in listed : pick[o] \in Selections(o)}

get_client_orders(u) ==
    LET mine == {o \in OrderIds : orders[o].user_id = u}
    IN /\ IF mine = {}
          THEN resp' = [op |-> "get_client_orders", error |-> TRUE, result |-> <<>>]
          ELSE \E pick \in Picks(mine) :
                  resp' = [op |-> "get_client_orders", error |-> FALSE,
                           result |-> [o \in mine |->
                               OrderEntry(ClientStatus(SelectedStatuses(pick[o])),
                                          pick[o])]]
       /\ UNCHANGED <<mock, now, orders, images, videos, notifications, payments,
                      sessions, handlers, runs, disk, dropbox, nextTask, polls,
                      hooks, adminOps, feedbacks, finals, uploads, archives>>

get_order_status ==
    LET joined == {o \in OrderIds : orders[o].user_id \in Users}
    IN /\ \E pick \in Picks(joined) :
             resp' = [op |-> "get_order_status", error |-> FALSE,
                      result |-> [o \in joined |->
                          OrderEntry(AdminStatus(SelectedStatuses(pick[o])),
                                     pick[o])]]
       /\ UNCHANGED <<mock, now, orders, images, videos, notifications, payments,
                      sessions, handlers, runs, disk, dropbox, nextTask, polls,
                      hooks, adminOps, feedbacks, finals, uploads, archives>>

\* The inputs of the status computations: one order of user 1 with NAggImages
\* images, each with no video, one video in any of the four states, or a
\* finished first video followed by a second one in any state (of the same
\* iteration, as admin_upload_final_video leaves them, or of the next one).
AggUnit == [status : ValidStatuses, iteration : {1, 2}]
AggUnits ==
    {<<>>} \cup {<<a>> : a \in {x \in AggUnit : x.iteration = 1}}
           \cup {<<a, b>> : a \in {x \in AggUnit : x.iteration = 1
                                                  /\ x.status \in TerminalStatuses},
                            b \in AggUnit}

AggVideo(i, unit) ==
    [image_id |-> i, status |-> unit.status,
     video_url |-> IF unit.status = "succeeded"
                   THEN DropboxPath(UserFolder(1), "video", 0, i) ELSE NoUrl,
     runway_job_id |-> NoJob, iteration |-> unit.iteration,
     parent_video_id |-> NULL, user_id |-> 1]

RECURSIVE AggVideos(_, _)
AggVideos(units, i) ==
    IF i > NAggImages THEN <<>>
    ELSE [k \in DOMAIN units[i] |-> AggVideo(i, units[i][k])] \o AggVideos(units, i + 1)

InitAgg ==
    /\ mock = FALSE
    /\ now = 1
    /\ orders = <<NewOrder(1, NULL)>>
    /\ images = [i \in 1..NAggImages |-> ParentImage(i, FALSE)]
    /\ \E units \in [1..NAggImages -> AggUnits] : videos = AggVideos(units, 1)
    /\ notifications = EmptyBag
    /\ payments = <<>>
    /\ sessions = <<>>
    /\ handlers = [h \in Handlers |-> IdleHandler]
    /\ runs = <<>>
    /\ disk = [q \in {<<i>> : i \in 1..NAggImages} |-> q[1]]
    /\ dropbox = {}
    /\ nextTask = 1
    /\ polls = <<>>
    /\ hooks = 0
    /\ adminOps = 0
    /\ resp = NoResp
    /\ feedbacks = <<>>
    /\ finals = <<>>
    /\ uploads = <<>>
    /\ archives = <<>>

NextAgg ==
    \/ \E u \in Users : get_client_orders(u)
    \/ get_order_status

SpecAgg == InitAgg /\ [][NextAgg]_vars

\* The statuses of the units an entry of a response lists.
EntryStatuses(e) == {e.videos[i].status : i \in DOMAIN e.videos}

\* C9: every order status a response reports for an order of which no selected
\* unit is processing and at least one is failed, is "failed".
C9_FailedWhenSomeFailed ==
    \A o \in DOMAIN resp.result :
        LET e == resp.result[o]
        IN ("processing" \notin EntryStatuses(e) /\ "failed" \in EntryStatuses(e))
               => e.status = "failed"

\* C10: every order status a response reports for an order with no Video unit,
\* or whose selected units are all queued, is "submitted".
C10_SubmittedWhenNothingStarted ==
    \A o \in DOMAIN resp.result :
        LET e == resp.result[o]
        IN (EntryStatuses(e) = {} \/ EntryStatuses(e) = {"queued"})
               => e.status = "submitted"

\* C11: every order status a response reports for an order with at least one
\* selected unit, all of whose selected units are succeeded, is "completed".
C11_CompletedWhenAllSucceeded ==
    \A o \in DOMAIN resp.result :
        LET e == resp.result[o]
        IN EntryStatuses(e) = {"succeeded"} => e.status = "completed"

C11_Witness ==
    /\ resp.op = "get_client_orders"
    /\ \E o \in DOMAIN resp.result :
          /\ DOMAIN resp.result[o].videos = 1..NAggImages
          /\ EntryStatuses(resp.result[o]) = {"succeeded"}
          /\ resp.result[o].status = "completed"

\* C12: every order status a response reports for an order of which a selected
\* unit is processing is "processing", whatever the other selected units are.
C12_ProcessingTakesPrecedence ==
    \A o \in DOMAIN resp.result :
        LET e == resp.result[o]
        IN "processing" \in EntryStatuses(e) => e.status = "processing"

C12_Witness ==
    /\ resp.op = "get_order_status"
    /\ \E o \in DOMAIN resp.result :
          /\ {"processing", "failed"} \subseteq EntryStatuses(resp.result[o])
          /\ resp.result[o].status = "processing"

\* C13: every response lists, for each image of the order that has a Video unit,
\* the unit with the highest iteration and, among the units tied on it, the one
\* with the highest id.
C13_SelectsHighestIterationThenId ==
    \A o \in DOMAIN resp.result :
        LET e == resp.result[o]
        IN /\ DOMAIN e.videos = {i \in ImagesOfOrder(o) : VideosOfImage(i) # {}}
           /\ \A i \in DOMAIN e.videos : e.videos[i].id = LatestVideo(i)

\* The rows of the four tables a status computation reads.
Tables == <<orders, images, videos, notifications>>

\* C14: a status computation changes no Order, Image Unit, Video unit or
\* Notification, and the response of an endpoint that follows a response of the
\* same endpoint with no mutation in between reports the same status for each
\* order.
C14_ComputationIsPureAndRepeatable ==
    [][resp' # resp =>
        /\ Tables' = Tables
        /\ resp.op = resp'.op =>
              \A o \in DOMAIN resp.result \cap DOMAIN resp'.result :
                  resp'.result[o].status = resp.result[o].status]_vars

-----------------------------------------------------------------------------
(* Iterations *)

NextIter ==
    \/ \E v \in VideoIds : submit_feedback(v)
    \/ \E i \in ImageIds, file_exists, ok \in BOOLEAN :
          admin_regenerate_video(i, file_exists, ok)
    \/ \E u \in Users : admin_upload_final_video(u)
    \/ \E i \in ImageIds, status \in AdminInputs : admin_update_order_status(i, status)
    \/ Tick

SpecIter == Init /\ [][NextIter]_vars

\* C15: the iteration numbers of the Video units of an image are strictly
\* increasing in creation order and the first one is 1.
C15_IterationsStrictlyIncrease ==
    \A i \in ImageIds :
        /\ \A v, w \in VideosOfImage(i) :
              v < w => videos[v].iteration < videos[w].iteration
        /\ \A v \in VideosOfImage(i) :
              (\A w \in VideosOfImage(i) : v <= w) => videos[v].iteration = 1

\* C16: a step that stores a Feedback row on unit P stores exactly one, and
\* creates exactly one Video unit, for P's image, with parent_video_id P and
\* iteration P.iteration + 1.
C16_FeedbackCreatesChild ==
    [][feedbacks' # feedbacks =>
        /\ Len(feedbacks') = Len(feedbacks) + 1
        /\ Len(videos') = Len(videos) + 1
        /\ LET P == feedbacks'[Len(feedbacks')].video_id
               child == videos'[Len(videos')]
           IN /\ child.image_id = videos[P].image_id
              /\ child.parent_video_id = P
              /\ child.iteration = videos[P].iteration + 1]_vars

-----------------------------------------------------------------------------
(* Intake and batch processing *)

NextUpload ==
    \/ \E u \in Users, package \in Packages, batch \in Batches :
          upload_photos(u, package, batch)
    \/ \E r \in RunIds, outcome \in GenOutcomes : ProcessFile(r, outcome)

SpecUpload == Init /\ [][NextUpload]_vars

\* A run that went through all its files, and one that ended in any way.
RunCompleted(r) == ~runs[r].aborted /\ runs[r].idx > Len(runs[r].files)
RunEnded(r) == ~RunActive(r)

\* The Image Units of order o made from the file at path.
UnitsOfFile(o, path) == {i \in ImagesOfOrder(o) : images[i].filename = path}

\* C17: a Video unit that batch processing created for a video the generation
\* service delivered (it carries the service's task id) is succeeded and has a
\* URL, whether or not archiving it succeeded.
C17_ArchivalFailureKeepsSuccess ==
    \A v \in VideoIds :
        videos[v].runway_job_id.kind = "task"
            => videos[v].status = "succeeded" /\ videos[v].video_url # NoUrl

\* C18: when a processing run has ended, every image file of its batch has an
\* Image Unit of the order with a Video unit, whatever happened to the files
\* before it.
C18_SiblingsAreProcessed ==
    \A r \in RunIds :
        RunEnded(r) =>
            \A k \in DOMAIN runs[r].files :
                Readable(disk[runs[r].files[k]])
                    => \E i \in UnitsOfFile(runs[r].order_id, runs[r].files[k]) :
                          VideosOfImage(i) # {}

\* C19: when the processing run of an uploaded batch has gone through all its
\* files, every file has exactly one Image Unit of the order and that unit has
\* exactly one Video unit, of iteration 1.
C19_OneUnitPerFile ==
    \A r \in RunIds :
        (RunCompleted(r) /\ runs[r].reorder_user_id = NULL) =>
            \A k \in DOMAIN runs[r].files :
                LET units == UnitsOfFile(runs[r].order_id, runs[r].files[k])
                IN /\ Cardinality(units) = 1
                   /\ \A i \in units :
                         /\ Cardinality(VideosOfImage(i)) = 1
                         /\ \A v \in VideosOfImage(i) : videos[v].iteration = 1

\* C20: the Order of every accepted upload exists, and once an upload whose save failed
\* in the middle has been answered and nothing of its order is running, every
\* file saved before the failure is an Image Unit of the order.
C20_PartialUploadKeepsImages ==
    \A n \in DOMAIN uploads :
        LET up == uploads[n]
        IN /\ ~up.rejected => up.order_id \in OrderIds
           /\ (up.failed /\ ActiveRunsOf(up.order_id) = {})
                 => \A k \in DOMAIN up.saved_files :
                       UnitsOfFile(up.order_id, up.saved_files[k]) # {}

-----------------------------------------------------------------------------
(* Intake alone: requests at the limits of every tier. *)

IntakePackages == {"Starter", "Professional", "Premium", "Basic"}
IntakeBatches == [n : {4, 5, 10, 11, 20, 21, 30, 31}, bad : {0}, fail_at : {0, 3}]

NextIntake ==
    \E u \in Users, package \in IntakePackages, batch \in IntakeBatches :
        upload_photos(u, package, batch)

SpecIntake == Init /\ [][NextIntake]_vars

\* The tiers as the specification lists them.
InTier(package, n) ==
    \/ package = "Starter" /\ 5 <= n /\ n <= 10
    \/ package = "Professional" /\ 11 <= n /\ n <= 20
    \/ package = "Premium" /\ 21 <= n /\ n <= 30

AcceptedUploads == {k \in DOMAIN uploads : ~uploads[k].rejected}

\* C21: an upload is accepted exactly when its package is a tier and its number
\* of files lies in the tier's range; only accepted uploads create an Order, and
\* only accepted uploads have a processing run.
C21_AcceptsExactlyTheTierRanges ==
    /\ \A k \in DOMAIN uploads :
          ~uploads[k].rejected <=> InTier(uploads[k].package, uploads[k].n)
    /\ Len(orders) = 1 + Cardinality(AcceptedUploads)
    /\ \A r \in RunIds :
          \E k \in AcceptedUploads : uploads[k].order_id = runs[r].order_id

C21_Witness ==
    /\ Len(uploads) = 2
    /\ uploads[1].rejected /\ uploads[1].package = "Starter" /\ uploads[1].n = 11
    /\ ~uploads[2].rejected /\ uploads[2].package = "Premium" /\ uploads[2].n = 30
    /\ Len(orders) = 2 /\ Len(runs) = 1

-----------------------------------------------------------------------------
(* The polling reconciler alone, over units an administrator may have put  *)
(* back to processing.                                                      *)

NextPoll ==
    \/ \E task \in ReportJobs, max_checks \in 0..MaxChecks :
          PollStart(task, max_checks)
    \/ \E p \in PollIds, answered \in BOOLEAN, status \in ReportStatuses,
          out \in {NoUrl} \cup {RunwayUrl(j.n) : j \in ReportJobs},
          upload_ok \in BOOLEAN : PollCheck(p, answered, status, out, upload_ok)
    \/ \E i \in ImageIds, status \in AdminInputs :
          admin_update_order_status(i, status)

SpecPoll == Init /\ [][NextPoll]_vars

\* A step of poll p that queries the service and gets no terminal status.
UnfinishedCheck(p) ==
    /\ polls'[p].checks = polls[p].checks + 1
    /\ polls'[p].outcome # "terminal"

\* C22: a live poll queries the service at most max_checks times and has ended
\* once its checks are used up; a query that returns no terminal status, the
\* last one included, changes no Video unit and creates no notification.
C22_PollIsBoundedAndTimeoutChangesNothing ==
    /\ [](\A p \in PollIds :
            /\ polls[p].checks <= polls[p].max_checks
            /\ polls[p].checks = polls[p].max_checks =>
                  polls[p].outcome # "polling"
            /\ polls[p].outcome # "polling" => polls[p].left = 0)
    /\ [][\A p \in PollIds :
            UnfinishedCheck(p) => UNCHANGED <<videos, notifications>>]_vars

C22_Witness ==
    \E p \in PollIds :
        /\ polls[p].outcome = "timeout"
        /\ polls[p].checks = MaxChecks
        /\ polls[p].video # NULL
        /\ videos[polls[p].video].status = "processing"

-----------------------------------------------------------------------------
(* The archival call alone, for the destinations the callers compute. *)

ArchivePaths ==
    {PollDropboxPath(v) : v \in VideoIds} \cup
    {BatchDropboxPath(UserFolder(u), NULL, i) : u \in Users, i \in ImageIds}

NextArchive ==
    \/ \E path \in ArchivePaths, prepared \in BOOLEAN :
          upload_video_to_dropbox(path, prepared)
    \/ \E c \in ArchiveIds, ok \in BOOLEAN : UploadAttempt(c, ok)

SpecArchive == Init /\ [][NextArchive]_vars

\* C23: a call makes at most 3 upload attempts, none after one that succeeded;
\* when it has returned its result is True exactly if an attempt succeeded; and
\* after 3 failed attempts it has returned False without an exception leaving it.
C23_ThreeAttemptsThenFalse ==
    \A c \in ArchiveIds :
        LET call == archives[c]
            n == Len(call.tries)
        IN /\ n <= 3
           /\ \A k \in 1..n : call.tries[k] => k = n
           /\ ~call.raised
           /\ call.pc = "returned" =>
                 (call.result <=> \E k \in 1..n : call.tries[k])
           /\ (n = 3 /\ \A k \in 1..n : ~call.tries[k]) =>
                 call.pc = "returned" /\ ~call.result
           /\ (n > 0 /\ call.tries[n]) => call.pc = "returned"

C23_Witness ==
    \E c, d \in ArchiveIds :
        /\ archives[c].tries = <<FALSE, FALSE, FALSE>>
        /\ archives[c].pc = "returned" /\ ~archives[c].result
        /\ archives[d].tries = <<FALSE, TRUE>>
        /\ archives[d].pc = "returned" /\ archives[d].result

-----------------------------------------------------------------------------
(* Claims about archive destinations and ownership *)

ArchivedVideos == {v \in VideoIds : videos[v].video_url.kind = "dropbox"}

\* C24: in live mode the destination of every archived Video unit lies in its
\* owner's folder and is keyed by the unit's own id, and no two archived units
\* have the same destination.
C24_DestinationIsOwnersFolderAndUnitId ==
    ~mock =>
        /\ \A v \in ArchivedVideos :
              /\ videos[v].video_url.folder = UserFolder(videos[v].user_id)
              /\ videos[v].video_url.key = v
        /\ \A v, w \in ArchivedVideos :
              v # w => videos[v].video_url # videos[w].video_url

-----------------------------------------------------------------------------
(* Progress of a paid reorder.  A handler that passed the guard goes on to  *)
(* start the thread, and a started thread keeps running its loop.           *)

SpecLive ==
    /\ Init
    /\ [][Next]_vars
    /\ \A h \in Handlers : WF_vars(StripeWebhookLaunch(h))
    /\ WF_vars(\E r \in RunIds, outcome \in GenOutcomes : ProcessFile(r, outcome))

\* The checkout session reorder() created together with order o: the first
\* session that names o.
ReorderSession(o) ==
    CHOOSE s \in 1..Len(sessions) :
        /\ sessions[s].order_id = o
        /\ \A t \in 1..(s - 1) : sessions[t].order_id # o

\* The confirmation of the session reorder() created for o has been delivered.
ReorderDelivered(o) ==
    /\ o \in OrderIds
    /\ orders[o].parent_order_id # NULL
    /\ ReorderSources(orders[o].parent_order_id) # <<>>
    /\ \E h \in Handlers :
          handlers[h].pc # "idle" /\ handlers[h].session = ReorderSession(o)

\* C25: once the confirmation of a reorder's own checkout session has been
\* delivered, and its parent has an image with content, a processing run of the
\* new order eventually exists.
C25_PaidReorderEventuallyStarts ==
    \A o \in 1..MaxOrders : ReorderDelivered(o) ~> (RunsOf(o) # {})

\* C26: the user_id of every Video unit is the user_id of the Order that owns
\* the unit's image.
C26_VideoOwnerIsOrderOwner ==
    \A v \in VideoIds :
        videos[v].user_id = orders[images[videos[v].image_id].order_id].user_id

\* C27: when the client's and the administrator's status computations answer
\* one after the other on the same tables, and select the same units for an
\* order, they report the same status for it.
C27_ClientAndAdminAgree ==
    [][(/\ resp.op # "none" /\ resp'.op # "none"
        /\ resp'.op # resp.op
        /\ ~resp.error /\ ~resp'.error)
       => \A o \in DOMAIN resp.result \cap DOMAIN resp'.result :
             resp'.result[o].videos = resp.result[o].videos
                 => resp'.result[o].status = resp.result[o].status]_vars

-----------------------------------------------------------------------------
(* Claims about the rows of the videos table *)

\* C28: no two Video units have the same job handle, unless they have none.
C28_JobHandlesAreUnique ==
    \A v, w \in VideoIds :
        (v # w /\ videos[v].runway_job_id # NoJob)
            => videos[v].runway_job_id # videos[w].runway_job_id

\* C29: every Video unit that a step creates as succeeded, or changes while
\* leaving or making it succeeded, has a media reference after the step.
C29_SucceededHasMediaReference ==
    [][\A v \in 1..Len(videos') :
          (/\ videos'[v].status = "succeeded"
           /\ (v \notin VideoIds \/ videos[v] # videos'[v]))
              => videos'[v].video_url # NoUrl]_vars

-----------------------------------------------------------------------------
(* Two uploads.  The model starts when upload_photos has just accepted a    *)
(* first batch on an empty database: its order exists, its files are on     *)
(* disk and its processing is scheduled.  A second upload of files with the *)
(* same names arrives while the first batch is processed.                   *)

FirstBatch == [n |-> 5, bad |-> 0, fail_at |-> 0]
FirstFiles == [k \in 1..FirstBatch.n |-> FileName(k)]

InitCollide ==
    /\ mock \in BOOLEAN
    /\ now = 1
    /\ orders = <<NewOrder(1, NULL)>>
    /\ images = <<>>
    /\ videos = <<>>
    /\ notifications = EmptyBag
    /\ payments = <<>>
    /\ sessions = <<>>
    /\ handlers = [h \in Handlers |-> IdleHandler]
    /\ runs = <<[order_id |-> 1, files |-> FirstFiles, idx |-> 1,
                 reorder_user_id |-> NULL, aborted |-> FALSE]>>
    /\ disk = [q \in Range(FirstFiles) |-> FileContent(1, TRUE)]
    /\ dropbox = {}
    /\ nextTask = 1
    /\ polls = <<>>
    /\ hooks = 0
    /\ adminOps = 0
    /\ resp = NoResp
    /\ feedbacks = <<>>
    /\ finals = <<>>
    /\ uploads = <<[package |-> "Starter", n |-> FirstBatch.n, rejected |-> FALSE,
                    order_id |-> 1, saved_files |-> FirstFiles, failed |-> FALSE]>>
    /\ archives = <<>>

NextCollide ==
    \/ \E u \in Users, batch \in {FirstBatch} : upload_photos(u, "Starter", batch)
    \/ \E r \in RunIds, outcome \in {"archived"} : ProcessFile(r, outcome)

SpecCollide == InitCollide /\ [][NextCollide]_vars

\* C30: the content of every Image Unit is content that was uploaded for the
\* order the unit belongs to.
C30_ContentIsTheOrdersUpload ==
    \A i \in ImageIds :
        images[i].content \in {FileContent(images[i].order_id, is_image) :
                                  is_image \in BOOLEAN}

=============================================================================
